---- MODULE Spec2Model ----
(***************************************************************************)
(* MaterialTabBar / MaterialTabItem of react-native-collapsible-tab-view   *)
(* (src/src/MaterialTabBar/TabBar.tsx, TabItem.tsx) as a state machine.    *)
(*                                                                         *)
(* Pixel quantities are integers.  A tab index is a 0-based integer, as in *)
(* the source; TLA+ sequences are 1-based, so tab i is tabNames[i + 1].    *)
(* Fractional quantities are held as scaled integers:                      *)
(*   currentIndexToSync, targetIndexToSync   in units of 1/SyncScale,      *)
(*   indexDecimal                            in units of 1/DecScale,       *)
(*   the argument of scrollTo                doubled (it has halves).      *)
(***************************************************************************)
EXTENDS Integers, Sequences, FiniteSets

(* ------------------------------ bounds --------------------------------- *)
\* number of distinct tab names, and the longest tab-name sequence
MaxTabs == 3
\* measured x offsets reported by tab items are 0, 150, .., MaxX * 150
MaxX == 2
\* animation frames per unit of index: the sync value moves in 1/SyncScale
SyncScale == 2
\* indexDecimal moves in steps of 1/DecScale
DecScale == 4
\* number of distinct tab names in the specification of the layout tracker
TrackerTabs == 2
\* onTabPress invocations counted before the counter is full
MaxCalls == 4
\* largest number of tabs in the carousel specification
CarouselTabs == 5

Names == 1 .. MaxTabs
\* measured x offsets and widths a tab item may report
Xs == {k * 150 : k \in 0 .. MaxX}
TabWs == {150, 300}
\* the tracker only copies a measured width: one value exercises it
LayoutWs == {150}
\* container widths (customWidth ?? windowWidth): multiples of 300, so that
\* width / nTabs, 80 * width / 100 and 43 * width / 100 are exact
WideWidths == {600, 1200}
NarrowWidths == {300}

None == 0 - 1
\* what tabNames[k] gives for k outside the array
Undefined == 0 - 2
NoLayout == [width |-> None, x |-> None]

VARIABLES
  scrollEnabled,          \* prop
  showDefaultTabs,        \* prop
  keepActiveTabCentered,  \* prop
  width,                  \* customWidth ?? windowWidth
  tabNames,               \* prop: sequence of distinct names
  itemLayoutGathering,    \* useRef(new Map()): entries in insertion order
  itemsLayout,            \* useState<ItemLayout[]>
  index,                  \* external shared value (integer index)
  indexDecimal,           \* external shared value, scaled by DecScale
  tabsOffset,             \* shared value: last observed contentOffset.x
  isScrolling,            \* shared value
  cancelNextScrollSync,   \* shared value
  currentIndexToSync,     \* shared value, scaled by SyncScale
  targetIndexToSync,      \* shared value, scaled by SyncScale
  syncAnim,               \* destination of the running withTiming, or None
  scrollCall,             \* the scrollTo call the last step made, if any
  scrollAnim,             \* ScrollView: destination of its animated scroll
  rowWidths,              \* native layout: the widths of the row's tab items
  indexData,              \* useState({selected, listIndex})
  lastCall,               \* argument of the latest onTabPress call, or None
  nCalls                  \* number of onTabPress calls so far

vars == <<scrollEnabled, showDefaultTabs, keepActiveTabCentered, width,
          tabNames, itemLayoutGathering, itemsLayout, index, indexDecimal,
          tabsOffset, isScrolling, cancelNextScrollSync, currentIndexToSync,
          targetIndexToSync, syncAnim, scrollCall, scrollAnim, rowWidths,
          indexData, lastCall, nCalls>>

propVars == <<scrollEnabled, showDefaultTabs, keepActiveTabCentered, width,
              tabNames, rowWidths>>
layoutVars == <<itemLayoutGathering, itemsLayout>>
indexVars == <<index, indexDecimal>>
dragVars == <<isScrolling, cancelNextScrollSync>>
animVars == <<currentIndexToSync, targetIndexToSync, syncAnim>>
pressVars == <<indexData, lastCall, nCalls>>

(* ------------------------------ helpers -------------------------------- *)
nTabs == Len(tabNames)

Range(s) == {s[i] : i \in 1 .. Len(s)}

\* all sequences of distinct names of length 1 .. MaxTabs
TabSeqs ==
  {s \in UNION {[1 .. n -> Names] : n \in 1 .. MaxTabs} :
     \A i, j \in 1 .. Len(s) : i # j => s[i] # s[j]}

Includes(names, name) == \E i \in 1 .. Len(names) : names[i] = name

(* ------------------- item layouts: fixed-width mode -------------------- *)
\* useState initialiser, TabBar.tsx 89-96 (i is the 0-based map index)
InitialTabWidth(sdt, w, n) ==
  IF sdt THEN w \div n
  ELSE IF n # 2 THEN (80 * w) \div 100 ELSE (43 * w) \div 100

InitialItemsLayout(se, sdt, names, w) ==
  IF se THEN << >>
  ELSE [k \in 1 .. Len(names) |->
          LET tabWidth == InitialTabWidth(sdt, w, Len(names))
          IN  [width |-> tabWidth,
               x |-> IF Len(names) # 2 THEN tabWidth ELSE (k - 1) * tabWidth]]

\* the resize effect's value, TabBar.tsx 103-108
ResizedItemsLayout(names, w) ==
  [k \in 1 .. Len(names) |->
     [width |-> w \div Len(names), x |-> (k - 1) * (w \div Len(names))]]

\* React.useEffect, TabBar.tsx 98-110, on a render after the first: the
\* state itemsLayout holds once the effect has run with the new props
LayoutEffect(se, names, w, il) ==
  IF ~se THEN ResizedItemsLayout(names, w) ELSE il

(* -------------------- item layouts: measured mode ---------------------- *)
\* Map.prototype.set: an existing key keeps its place, a new one is appended
MapSet(m, name, layout) ==
  IF \E i \in 1 .. Len(m) : m[i].name = name
  THEN [i \in 1 .. Len(m) |->
          IF m[i].name = name THEN [name |-> name, layout |-> layout] ELSE m[i]]
  ELSE Append(m, [name |-> name, layout |-> layout])

MapHas(m, name) == \E i \in 1 .. Len(m) : m[i].name = name

MapGet(m, name) ==
  IF MapHas(m, name)
  THEN (CHOOSE e \in Range(m) : e.name = name).layout
  ELSE NoLayout

MapKeys(m) == {m[i].name : i \in 1 .. Len(m)}

FilterKnownAll(m, names) == [i \in 1 .. Len(m) |-> m[i].layout]

\* .filter(([tabName]) => tabNames.includes(tabName)).map(([, layout]) => layout)
FilterKnown(m, names) ==
  LET F[i \in 0 .. Len(m)] ==
        IF i = 0 THEN << >>
        ELSE IF Includes(names, m[i].name)
             THEN Append(F[i - 1], m[i].layout)
             ELSE F[i - 1]
  IN  F[Len(m)]

\* insert e after the last element whose x is <= e.x (stable)
InsertByX(s, e) ==
  LET k == Cardinality({i \in 1 .. Len(s) : s[i].x <= e.x})
  IN  SubSeq(s, 1, k) \o <<e>> \o SubSeq(s, k + 1, Len(s))

\* mutant of SortByX: the sort is left out
SortByXOmitted(s) == s

\* .sort((a, b) => a.x - b.x): ascending by x, stable
SortByX(s) ==
  LET F[i \in 0 .. Len(s)] ==
        IF i = 0 THEN << >> ELSE InsertByX(F[i - 1], s[i])
  IN  F[Len(s)]

\* the sequence onTabItemLayout derives from the accumulator, 124-127
GatheredLayout(m, names) == SortByX(FilterKnown(m, names))

\* mutant of Publish: the length check is left out
PublishUnchecked(layout, names, il) == layout

\* if (layout.length === tabNames.length) setItemsLayout(layout), 129-131
Publish(layout, names, il) ==
  IF Len(layout) = Len(names) THEN layout ELSE il

(* --------------------------- sync reactions ---------------------------- *)
\* a step that called scrollTo(ref, x2 / 2, 0, true) leaves
\* [scrolled |-> TRUE, x2 |-> x2] in scrollCall, any other step NoScroll
NoScroll == [scrolled |-> FALSE, x2 |-> 0]

\* index reaction, TabBar.tsx 158-170: the new targetIndexToSync and the
\* destination of the restarted animation (cancelAnimation leaves
\* currentIndexToSync where it is; withTiming starts from there)
\* mutant of IndexReactionTarget: the target is not updated
IndexReactionTargetKept(se, nextIndex, tgt) == tgt

IndexReactionTarget(se, nextIndex, tgt) ==
  IF se THEN nextIndex * SyncScale ELSE tgt

IndexReactionAnim(se, nextIndex, anim) ==
  IF se THEN nextIndex * SyncScale ELSE anim

SyncGuardInFlight(se, il, n, idx, cur, tgt) ==
  /\ se
  /\ Len(il) = n
  /\ idx >= 0 /\ idx < Len(il)

\* outer condition of the sync reaction, 177-182; idx is index.value
SyncGuard(se, il, n, idx, cur, tgt) ==
  /\ cur = tgt
  /\ se
  /\ Len(il) = n
  /\ idx >= 0 /\ idx < Len(il)

\* mutant of ShouldScroll: the right edge is compared without the tab width
ShouldScrollNoWidth(keep, x, w, o, W) ==
  keep \/ x < o \/ x > o + W

\* inner condition, 185-189: offset is the rectangle's x, 2 * halfTab its
\* width, o is tabsOffset.value, W the container width
ShouldScroll(keep, x, w, o, W) ==
  keep \/ x < o \/ x > o + W - w

\* mutant of ScrollToX2: halfTab is left out
ScrollToX2NoHalfTab(x, w, W) == 2 * x - W

\* twice the x passed to scrollTo, 190: offset - width / 2 + halfTab
ScrollToX2(x, w, W) == 2 * x - W + w

\* one evaluation of the sync reaction, 172-195
SyncReaction(se, il, n, idx, cur, tgt, o, W, keep) ==
  IF /\ SyncGuard(se, il, n, idx, cur, tgt)
     /\ ShouldScroll(keep, il[idx + 1].x, il[idx + 1].width, o, W)
  THEN [scrolled |-> TRUE,
        x2 |-> ScrollToX2(il[idx + 1].x, il[idx + 1].width, W)]
  ELSE NoScroll

(* ------------------------------ ScrollView ----------------------------- *)
SetMax(S) == CHOOSE v \in S : \A u \in S : u <= v

\* right edge of the row of tab items, as far as they have been measured
ContentWidth(m, names) ==
  SetMax({0} \cup {l.x + l.width : l \in Range(FilterKnown(m, names))})

MaxOffset(m, names, W) ==
  IF ContentWidth(m, names) > W THEN ContentWidth(m, names) - W ELSE 0

\* where an animated scrollTo(x2 / 2) comes to rest
ScrollDest(x2, m, names, W) ==
  LET x == x2 \div 2
  IN  IF x < 0 THEN 0
      ELSE IF x > MaxOffset(m, names, W) THEN MaxOffset(m, names, W) ELSE x

\* the animated scroll a sync outcome leaves the ScrollView with
ScrollAfter(outcome, m, names, W, o, anim) ==
  IF outcome.scrolled
  THEN IF ScrollDest(outcome.x2, m, names, W) = o THEN None
       ELSE ScrollDest(outcome.x2, m, names, W)
  ELSE anim

(* -------------------------------- mount -------------------------------- *)
\* the state after the first render and its effects, 73-195
Mount(se, sdt, keep, w, names, idx, row) ==
  /\ scrollEnabled = se
  /\ showDefaultTabs = sdt
  /\ keepActiveTabCentered = keep
  /\ width = w
  /\ tabNames = names
  /\ itemLayoutGathering = << >>
  /\ itemsLayout = InitialItemsLayout(se, sdt, names, w)
  /\ index = idx
  /\ indexDecimal = idx * DecScale
  /\ tabsOffset = 0
  /\ isScrolling = FALSE
  /\ cancelNextScrollSync = idx
  /\ currentIndexToSync = idx * SyncScale
  /\ targetIndexToSync = idx * SyncScale
  /\ syncAnim = None
  /\ scrollCall = NoScroll
  /\ scrollAnim = None
  /\ rowWidths = row
  /\ indexData = [selected |-> 0, listIndex |-> 0]
  /\ lastCall = None
  /\ nCalls = 0

(* --------------------------- layout callbacks -------------------------- *)
\* tab items are rendered in the default strip and in the two-tab layout
\* (249-273, 319-349)
ItemsRendered == showDefaultTabs \/ nTabs = 2

LayoutAcceptedUnmeasured(se, hasLayout) == se

\* the guards of onTabItemLayout, 114-115: scrollEnabled, and the event
\* carries a layout
LayoutAccepted(se, hasLayout) == se /\ hasLayout

\* onTabItemLayout(event, name), 112-135, and the render its setItemsLayout
\* causes: itemsLayout is a dependency of the sync reaction, which runs again
OnTabItemLayout(hasLayout, name, x, w) ==
  /\ UNCHANGED <<propVars, indexVars, tabsOffset, dragVars, animVars, pressVars>>
  /\ IF LayoutAccepted(scrollEnabled, hasLayout)
     THEN LET m == MapSet(itemLayoutGathering, name, [width |-> w, x |-> x])
              layout == GatheredLayout(m, tabNames)
          IN  /\ itemLayoutGathering' = m
              /\ itemsLayout' = Publish(layout, tabNames, itemsLayout)
              /\ scrollCall' =
                   IF Len(layout) = nTabs
                   THEN SyncReaction(scrollEnabled, itemsLayout', nTabs, index,
                                     currentIndexToSync, targetIndexToSync,
                                     tabsOffset, width, keepActiveTabCentered)
                   ELSE NoScroll
              /\ scrollAnim' = ScrollAfter(scrollCall', m, tabNames, width,
                                           tabsOffset, scrollAnim)
     ELSE /\ UNCHANGED <<layoutVars, scrollAnim>>
          /\ scrollCall' = NoScroll

(* ----------------------------- prop changes ---------------------------- *)
\* a render with new props: the layout effect (98-110), the index reaction
\* when scrollEnabled changed (its dependency, 169), the sync reaction when
\* scrollEnabled, itemsLayout or nTabs changed (194)
Rerender(se, names, w) ==
  LET seChanged == se # scrollEnabled
      syncRerun == seChanged \/ ~se \/ Len(names) # nTabs
      tgt == IF seChanged
             THEN IndexReactionTarget(se, index, targetIndexToSync)
             ELSE targetIndexToSync
  IN  /\ scrollEnabled' = se
      /\ tabNames' = names
      /\ width' = w
      /\ itemsLayout' = LayoutEffect(se, names, w, itemsLayout)
      /\ targetIndexToSync' = tgt
      /\ syncAnim' = IF seChanged
                     THEN IndexReactionAnim(se, index, syncAnim)
                     ELSE syncAnim
      /\ scrollCall' =
           IF syncRerun
           THEN SyncReaction(se, itemsLayout', Len(names), index,
                             currentIndexToSync, tgt, tabsOffset, w,
                             keepActiveTabCentered)
           ELSE NoScroll
      /\ scrollAnim' = ScrollAfter(scrollCall', itemLayoutGathering, names, w,
                                   tabsOffset, scrollAnim)
      /\ UNCHANGED <<showDefaultTabs, keepActiveTabCentered, rowWidths,
                     itemLayoutGathering, indexVars, tabsOffset, dragVars,
                     currentIndexToSync, pressVars>>

SetWidth(w) == w # width /\ Rerender(scrollEnabled, tabNames, w)

SetTabNames(names) == names # tabNames /\ Rerender(scrollEnabled, names, width)

SetScrollEnabled(se) == se # scrollEnabled /\ Rerender(se, tabNames, width)

(* --------------------------- external index --------------------------- *)
\* the container writes index.value; the index reaction (158-170) runs, and
\* targetIndexToSync having changed, so does the sync reaction (172-195)
DriverSetIndex(i) ==
  /\ i # index
  /\ index' = i
  /\ targetIndexToSync' = IndexReactionTarget(scrollEnabled, i, targetIndexToSync)
  /\ syncAnim' = IndexReactionAnim(scrollEnabled, i, syncAnim)
  /\ scrollCall' =
       IF scrollEnabled
       THEN SyncReaction(scrollEnabled, itemsLayout, nTabs, i,
                         currentIndexToSync, targetIndexToSync', tabsOffset,
                         width, keepActiveTabCentered)
       ELSE NoScroll
  /\ scrollAnim' = ScrollAfter(scrollCall', itemLayoutGathering, tabNames,
                               width, tabsOffset, scrollAnim)
  /\ UNCHANGED <<propVars, layoutVars, indexDecimal, tabsOffset, dragVars,
                 currentIndexToSync, pressVars>>

\* the container writes indexDecimal.value
DriverSetIndexDecimal(f) ==
  /\ f # indexDecimal
  /\ indexDecimal' = f
  /\ scrollCall' = NoScroll
  /\ UNCHANGED <<propVars, layoutVars, index, tabsOffset, dragVars, animVars,
                 scrollAnim, pressVars>>

\* the values a frame of withTiming may give: nearer to dest than cur, never
\* past it, dest itself on the last frame
FrameValues(cur, dest) ==
  IF cur <= dest THEN (cur + 1) .. dest ELSE dest .. (cur - 1)

\* one frame of currentIndexToSync.value = withTiming(nextIndex), 166; the
\* value having changed, the sync reaction (172-195) runs
AnimFrame ==
  /\ syncAnim # None
  /\ \E c \in FrameValues(currentIndexToSync, syncAnim) \cup {syncAnim} :
       /\ currentIndexToSync' = c
       /\ syncAnim' = IF c = syncAnim THEN None ELSE syncAnim
  /\ scrollCall' = SyncReaction(scrollEnabled, itemsLayout, nTabs, index,
                                currentIndexToSync', targetIndexToSync,
                                tabsOffset, width, keepActiveTabCentered)
  /\ scrollAnim' = ScrollAfter(scrollCall', itemLayoutGathering, tabNames,
                               width, tabsOffset, scrollAnim)
  /\ UNCHANGED <<propVars, layoutVars, indexVars, tabsOffset, dragVars,
                 targetIndexToSync, pressVars>>

(* ---------------------------- scroll events ---------------------------- *)
\* onScroll handler, 141-143
OnScroll(o) ==
  /\ scrollEnabled
  /\ tabsOffset' = o
  /\ scrollCall' = NoScroll
  /\ UNCHANGED <<propVars, layoutVars, indexVars, dragVars, animVars, pressVars>>

\* offsets the ScrollView reports on its way from o to dest
OffsetsBetween(o, dest) ==
  {v \in Xs : (o < v /\ v < dest) \/ (dest < v /\ v < o)}

\* the ScrollView animates towards the scrollTo destination and reports an
\* offset on the way, or the destination, where the animation ends
ScrollFrame ==
  /\ scrollAnim # None
  /\ \E o \in OffsetsBetween(tabsOffset, scrollAnim) \cup {scrollAnim} :
       /\ OnScroll(o)
       /\ scrollAnim' = IF o = scrollAnim THEN None ELSE scrollAnim

\* the layout the native row gives the tab item at position i (1-based)
RowX(i) ==
  LET F[k \in 1 .. i] == IF k = 1 THEN 0 ELSE F[k - 1] + rowWidths[k - 1]
  IN  F[i]

\* the row's tab items report their native layout, in row order
RowLayoutEvent ==
  /\ ItemsRendered
  /\ Len(rowWidths) = nTabs
  /\ \E i \in 1 .. nTabs :
       /\ i > 1 => MapHas(itemLayoutGathering, tabNames[i - 1])
       /\ OnTabItemLayout(TRUE, tabNames[i], RowX(i), rowWidths[i])

(* ------------------------------ user drag ------------------------------ *)
\* offsets the strip can rest at: 0 up to the content's overhang
RestOffsets ==
  {o \in Xs : o <= MaxOffset(itemLayoutGathering, tabNames, width)}

\* onBeginDrag handler, 144-147 (attached when scrollEnabled, 246); the
\* touch takes the ScrollView over from its animated scroll
OnBeginDrag ==
  /\ scrollEnabled
  /\ isScrolling' = TRUE
  /\ cancelNextScrollSync' = index
  /\ scrollAnim' = None
  /\ scrollCall' = NoScroll
  /\ UNCHANGED <<propVars, layoutVars, indexVars, tabsOffset, animVars,
                 pressVars>>

\* the strip follows the finger: onScroll (141-143) with the new offset
UserScroll ==
  /\ isScrolling
  /\ UNCHANGED scrollAnim
  /\ \E o \in Xs : o # tabsOffset /\ OnScroll(o) /\ o \in RestOffsets

\* onMomentumEnd handler, 148-150
OnMomentumEnd ==
  /\ scrollEnabled
  /\ isScrolling
  /\ isScrolling' = FALSE
  /\ scrollCall' = NoScroll
  /\ UNCHANGED <<propVars, layoutVars, indexVars, tabsOffset,
                 cancelNextScrollSync, animVars, scrollAnim, pressVars>>

(* ------------------------------- presses ------------------------------- *)
\* tabNames[k] as JavaScript reads it, k 0-based: undefined out of range
TabNameAt(k) ==
  IF k \in 0 .. nTabs - 1 THEN tabNames[k + 1] ELSE Undefined

\* the external select-tab callback is called with name
OnTabPress(name) ==
  /\ lastCall' = name
  /\ nCalls' = nCalls + 1

ItemNameFirst(i) == tabNames[1]

\* the name prop of the tab item rendered at position i (0-based),
\* tabNames.map((name, i) => ...), 252-257 and 327-334
ItemName(i) == tabNames[i + 1]

\* the Pressable of the tab item at position i is pressed:
\* onPress={() => onPress(name)}, TabItem.tsx 84, onPress being onTabPress
PressTabItem(i) ==
  /\ ItemsRendered
  /\ i \in 0 .. nTabs - 1
  /\ nCalls < MaxCalls
  /\ OnTabPress(ItemName(i))
  /\ scrollCall' = NoScroll
  /\ UNCHANGED <<propVars, layoutVars, indexVars, tabsOffset, dragVars,
                 animVars, scrollAnim, indexData>>

\* the next Pressable is rendered in carousel mode, 275-277
NextRendered == ~showDefaultTabs /\ nTabs > 2

NextPressedStale(d, n) ==
  IF d.selected = 0 THEN n - 1
  ELSE IF d.listIndex < d.selected THEN d.listIndex
  ELSE d.selected

\* the position whose name the next Pressable hands to onTabPress, 281-299
NextPressed(d, n) ==
  IF d.selected = 0 THEN n - 1
  ELSE IF d.listIndex < d.selected THEN d.listIndex
  ELSE d.selected - 1

\* the indexData the next Pressable sets, 284-303
NextIndexData(d, n) ==
  IF d.selected = 0 THEN [selected |-> n - 1, listIndex |-> n - 2]
  ELSE IF d.listIndex < d.selected
       THEN [selected |-> d.listIndex, listIndex |-> d.listIndex + 1]
  ELSE [selected |-> d.selected - 1, listIndex |-> d.selected]

\* the next Pressable is pressed, 280-306
PressNext ==
  /\ NextRendered
  /\ nCalls < MaxCalls
  /\ OnTabPress(TabNameAt(NextPressed(indexData, nTabs)))
  /\ indexData' = NextIndexData(indexData, nTabs)
  /\ scrollCall' = NoScroll
  /\ UNCHANGED <<propVars, layoutVars, indexVars, tabsOffset, dragVars,
                 animVars, scrollAnim>>

(* ------------------------------ tab colour ----------------------------- *)
Abs(v) == IF v < 0 THEN 0 - v ELSE v

IsActiveColorInclusive(p, f) == 2 * Abs(p * DecScale - f) <= DecScale

\* stylez of the tab item at position p: the colour is activeColor when
\* Math.abs(index - indexDecimal.value) < 0.5, TabItem.tsx 41-49
IsActiveColor(p, f) == 2 * Abs(p * DecScale - f) < DecScale

\* the positions of the tab items that show the active colour
ActiveColored ==
  {p \in 0 .. nTabs - 1 : IsActiveColor(p, indexDecimal)}

(* ------------------------------- carousel ------------------------------ *)
\* the width of a card and the gap between cards in the outputRange, 480
CardWidth == 250
CardGap == 35

\* the cards are rendered, 370
CardsRendered == ~showDefaultTabs /\ (nTabs > 2 \/ nTabs = 1)

\* outputRange[0] of the card at position i, 480
CardRangeStart(i) ==
  IF i = 0 THEN 0 ELSE (0 - CardWidth * i) - CardGap * i

CardRangeEndNoGap(i) ==
  IF i = 0 THEN CardWidth
  ELSE ((0 - CardWidth * i) - CardGap * i) + CardWidth

\* outputRange[1] of the card at position i, 480
CardRangeEnd(i) ==
  IF i = 0 THEN CardWidth + CardGap
  ELSE ((0 - CardWidth * i) - CardGap * i) + CardWidth + CardGap

\* interpolate(f, [0, 1], [a, b]), extended linearly outside [0, 1]; f and
\* the result are in units of 1/DecScale
Interpolate01(f, a, b) == DecScale * a + f * (b - a)

NoTransform == [applied |-> FALSE, x |-> 0]

\* transform of style2z, 471-485: translateX of the card at position i,
\* applied only when itemsLayout has more than one entry
CardTransform(i, f, il) ==
  IF Len(il) > 1
  THEN [applied |-> TRUE,
        x |-> Interpolate01(f, CardRangeStart(i), CardRangeEnd(i))]
  ELSE NoTransform

(* ------------------ specification: measured, fixed props --------------- *)
\* the first n names, in order
FirstNames(n) == [k \in 1 .. n |-> k]

InitMeasured ==
  \E n \in 1 .. MaxTabs, w \in WideWidths :
    Mount(TRUE, TRUE, FALSE, w, FirstNames(n), 0, << >>)

\* a tab item of the current row reports a measured layout
ItemLayoutEvent ==
  /\ ItemsRendered
  /\ \E i \in 1 .. nTabs, x \in Xs, w \in LayoutWs :
       OnTabItemLayout(TRUE, tabNames[i], x, w)

\* a layout event that carries no measurement
EmptyLayoutEvent ==
  /\ ItemsRendered
  /\ \E i \in 1 .. nTabs : OnTabItemLayout(FALSE, tabNames[i], None, None)

NextMeasured ==
  \/ ItemLayoutEvent
  \/ EmptyLayoutEvent

SpecMeasured == InitMeasured /\ [][NextMeasured]_vars

(* ------------------ specification: the layout tracker ------------------ *)
\* sequences of distinct names among the first TrackerTabs
TrackerSeqs == {s \in TabSeqs : Range(s) \subseteq 1 .. TrackerTabs}

InitLayout ==
  \E se \in BOOLEAN, names \in TrackerSeqs :
    Mount(se, TRUE, FALSE, SetMax(WideWidths), names, 0, << >>)

TabNamesChange == \E names \in TrackerSeqs : SetTabNames(names)

ScrollEnabledChange == \E se \in BOOLEAN : SetScrollEnabled(se)

NextLayout ==
  \/ ItemLayoutEvent
  \/ EmptyLayoutEvent
  \/ TabNamesChange
  \/ ScrollEnabledChange

SpecLayout == InitLayout /\ [][NextLayout]_vars

(* ------------------ specification: fixed-width layouts ----------------- *)
InitFixed ==
  \E se \in BOOLEAN, sdt \in BOOLEAN, w \in WideWidths, names \in TabSeqs :
    Mount(se, sdt, FALSE, w, names, 0, << >>)

WidthChange == \E w \in WideWidths : SetWidth(w)

AnyTabNamesChange == \E names \in TabSeqs : SetTabNames(names)

NextFixed ==
  \/ WidthChange
  \/ AnyTabNamesChange
  \/ ScrollEnabledChange

SpecFixed == InitFixed /\ [][NextFixed]_vars

(* --------------- specification: index and scroll sync ------------------ *)
InitSync ==
  \E keep \in BOOLEAN, w \in NarrowWidths, n \in 2 .. MaxTabs :
    \E row \in [1 .. n -> TabWs] :
      Mount(TRUE, TRUE, keep, w, FirstNames(n), 0, row)

IndexChange == \E i \in 0 .. MaxTabs - 1 : DriverSetIndex(i)

NextSync ==
  \/ RowLayoutEvent
  \/ IndexChange
  \/ AnimFrame
  \/ ScrollFrame
  \/ ScrollEnabledChange

SpecSync == InitSync /\ [][NextSync]_vars

\* rows of narrow tab items with at most one wide item among them
InitSyncLive ==
  \E keep \in BOOLEAN, w \in NarrowWidths, n \in 2 .. MaxTabs :
    \E row \in [1 .. n -> TabWs] :
      /\ Cardinality({k \in 1 .. n : row[k] # SetMax(LayoutWs)}) <= 1
      /\ Mount(TRUE, TRUE, keep, w, FirstNames(n), 0, row)

\* the container selects one of the tabs
TabIndexChange == \E i \in 0 .. nTabs - 1 : DriverSetIndex(i)

\* no prop changes, the index stays within the tabs, and the frames of the
\* two animations (the UI thread's frame loop, the ScrollView's scroll
\* animation) are fair
NextSyncLive ==
  \/ RowLayoutEvent
  \/ TabIndexChange
  \/ AnimFrame
  \/ ScrollFrame

SpecSyncLive ==
  /\ InitSyncLive
  /\ [][NextSyncLive]_vars
  /\ WF_vars(AnimFrame)
  /\ WF_vars(ScrollFrame)

(* ------------- specification: presses, drags and the driver ------------ *)
\* every item of the row is LayoutWs-wide
EvenRow(n) == [k \in 1 .. n |-> SetMax(LayoutWs)]

InitBar ==
  \E se \in BOOLEAN, sdt \in BOOLEAN, n \in 1 .. MaxTabs :
    Mount(se, sdt, FALSE, SetMax(NarrowWidths), FirstNames(n), 0, EvenRow(n))

TabItemPress == \E i \in 0 .. MaxTabs - 1 : PressTabItem(i)

\* the fractional index the container writes lies in [0, nTabs - 1]
IndexDecimalChange ==
  \E f \in 0 .. (nTabs - 1) * DecScale : DriverSetIndexDecimal(f)

\* the container's pager comes to rest on a page
IndexDecimalSettle ==
  \E p \in 0 .. nTabs - 1 : DriverSetIndexDecimal(p * DecScale)

NextBar ==
  \/ TabItemPress
  \/ PressNext
  \/ OnBeginDrag
  \/ UserScroll
  \/ OnMomentumEnd
  \/ RowLayoutEvent
  \/ IndexChange
  \/ IndexDecimalSettle

SpecBar == InitBar /\ [][NextBar]_vars

(* ------------------ specification: the fractional index ---------------- *)
\* the container moves between pages: index and indexDecimal change
NextPager ==
  \/ IndexChange
  \/ IndexDecimalChange

SpecPager == InitBar /\ [][NextPager]_vars

(* --------------------- specification: the carousel --------------------- *)
\* tab counts at which the cards are rendered
CarouselCounts == {1} \cup (3 .. CarouselTabs)

InitCarousel ==
  \E se \in BOOLEAN, n \in CarouselCounts :
    Mount(se, FALSE, FALSE, SetMax(NarrowWidths), FirstNames(n), 0, << >>)

\* the tab-name sequence changes and keeps more than two tabs
CarouselTabNamesChange ==
  \E n \in 3 .. CarouselTabs : SetTabNames(FirstNames(n))

NextCarousel ==
  \/ PressNext
  \/ CarouselTabNamesChange
  \/ IndexDecimalChange

SpecCarousel == InitCarousel /\ [][NextCarousel]_vars

(* ------------------ specification: changing tab sets ------------------- *)
\* sequences of at most TrackerTabs names, in ascending order
RetabSeqs ==
  {s \in TabSeqs :
     /\ Len(s) <= TrackerTabs
     /\ \A i, j \in 1 .. Len(s) : i < j => s[i] < s[j]}

InitRetab ==
  \E names \in RetabSeqs :
    Mount(TRUE, TRUE, FALSE, SetMax(WideWidths), names, 0, << >>)

\* the tab item at position i of a row of equal items reports its slot
SlotLayoutEvent ==
  /\ ItemsRendered
  /\ \E i \in 1 .. nTabs :
       OnTabItemLayout(TRUE, tabNames[i], (i - 1) * SetMax(LayoutWs),
                       SetMax(LayoutWs))

RetabChange == \E names \in RetabSeqs : SetTabNames(names)

NextRetab ==
  \/ SlotLayoutEvent
  \/ RetabChange

SpecRetab == InitRetab /\ [][NextRetab]_vars

(* ======================= properties: layout tracker ==================== *)
\* every current tab name has an entry in the accumulator
AllReported == \A i \in 1 .. nTabs : MapHas(itemLayoutGathering, tabNames[i])

SortedByX(il) == \A i, j \in 1 .. Len(il) : i < j => il[i].x <= il[j].x

\* C1: in measured mode with a fixed tab-name sequence, whatever the order
\* and repetition of the layout callbacks, itemsLayout is empty as long as
\* some tab name has not reported, and from the report that completes the
\* set on it has one entry per tab and is sorted by x ascending.
C1_MeasuredPublication ==
  IF AllReported
  THEN Len(itemsLayout) = nTabs /\ SortedByX(itemsLayout)
  ELSE itemsLayout = << >>

\* all tabs have reported, the last tab first, and the sort reordered them
C1_Witness ==
  /\ nTabs = MaxTabs
  /\ AllReported
  /\ itemLayoutGathering[1].name = tabNames[nTabs]
  /\ itemsLayout # FilterKnown(itemLayoutGathering, tabNames)
  /\ Len(itemsLayout) = nTabs

\* C2: whenever scrollEnabled is false, itemsLayout has one entry per tab
\* with width = containerWidth / tabCount and x = index * width.
C2_FixedWidthLayout ==
  ~scrollEnabled =>
    /\ Len(itemsLayout) = nTabs
    /\ \A k \in 1 .. nTabs :
         /\ itemsLayout[k].width * nTabs = width
         /\ itemsLayout[k].x = (k - 1) * itemsLayout[k].width

\* C3: whenever scrollEnabled is true, itemsLayout is empty or is the
\* sorted sequence of one measured layout per current tab name.
C3_MeasuredEmptyOrCurrent ==
  scrollEnabled =>
    \/ itemsLayout = << >>
    \/ /\ AllReported
       /\ itemsLayout = GatheredLayout(itemLayoutGathering, tabNames)

\* a step in which onTabItemLayout publishes a new sequence
PublishStep ==
  /\ scrollEnabled /\ scrollEnabled'
  /\ itemsLayout' # itemsLayout

\* after the step, entry i is the layout last reported for tabNames[i]
InTabOrderNext ==
  /\ Len(itemsLayout') = Len(tabNames')
  /\ \A i \in 1 .. Len(tabNames') :
       itemsLayout'[i] = MapGet(itemLayoutGathering', tabNames'[i])

\* the x last reported by the current tabs increases strictly in tab order
XIncreasing ==
  /\ AllReported
  /\ \A i, j \in 1 .. nTabs :
       i < j => MapGet(itemLayoutGathering, tabNames[i]).x
                  < MapGet(itemLayoutGathering, tabNames[j]).x

\* C4 as claimed: every sequence onTabItemLayout publishes is in tab order,
\* whatever x values the tab items report.
C4_TabOrderAnyX == [][PublishStep => InTabOrderNext]_vars

\* C4 amended: a sequence onTabItemLayout publishes is in tab order when the
\* x values last reported by the current tabs increase strictly in tab order.
C4_TabOrderWhenXIncreasing ==
  [][PublishStep /\ XIncreasing' => InTabOrderNext]_vars

\* published, x increasing in tab order, yet the last tab reported first
C4_Witness ==
  /\ scrollEnabled
  /\ nTabs >= 2
  /\ XIncreasing
  /\ itemLayoutGathering[1].name = tabNames[nTabs]
  /\ itemsLayout = GatheredLayout(itemLayoutGathering, tabNames)

(* ======================= properties: index sync ======================== *)
\* C5 (state part): with scrolling enabled, the sync is complete
\* (currentIndexToSync = targetIndexToSync) only for the latest index
SyncCompleteOnlyForLatest ==
  (scrollEnabled /\ currentIndexToSync = targetIndexToSync)
    => targetIndexToSync = index * SyncScale

\* C5 (step part): an index change with scrolling enabled sets the target
\* to the new index and replaces the running animation by one towards it,
\* starting from where currentIndexToSync is
IndexChangeSupersedes ==
  (index' # index /\ scrollEnabled)
    => /\ targetIndexToSync' = index' * SyncScale
       /\ syncAnim' = index' * SyncScale
       /\ currentIndexToSync' = currentIndexToSync

\* C5: while scrolling is enabled every external index change cancels the
\* animation of currentIndexToSync in flight, sets targetIndexToSync to the
\* new index and restarts the animation towards it; currentIndexToSync =
\* targetIndexToSync is reached only for the most recent external index.
C5_IndexChangeSupersedes ==
  []SyncCompleteOnlyForLatest /\ [][IndexChangeSupersedes]_vars

\* the index is 1 and the animation runs down to it from between 1 and 2,
\* where an animation towards index 2 had brought currentIndexToSync
C5_Witness ==
  /\ scrollEnabled
  /\ index = 1
  /\ syncAnim = SyncScale
  /\ targetIndexToSync = SyncScale
  /\ currentIndexToSync > SyncScale
  /\ currentIndexToSync < 2 * SyncScale

\* the rectangle of the tab the external index selects
ActiveRect == itemsLayout[index + 1]

\* sync complete, scrolling enabled, layouts published, rectangle exists
SyncReady ==
  /\ currentIndexToSync = targetIndexToSync
  /\ scrollEnabled
  /\ Len(itemsLayout) = nTabs
  /\ index >= 0 /\ index < Len(itemsLayout)

\* a step after which the sync reaction is evaluated: a value it reads
\* (currentIndexToSync, targetIndexToSync) or a dependency (scrollEnabled,
\* itemsLayout, nTabs) changed
SyncTrigger ==
  \/ currentIndexToSync' # currentIndexToSync
  \/ targetIndexToSync' # targetIndexToSync
  \/ itemsLayout' # itemsLayout
  \/ scrollEnabled' # scrollEnabled
  \/ Len(tabNames') # Len(tabNames)

\* the claimed condition, on offset o, container width w, rectangle r
ScrollClaimed(keep, r, o, w) ==
  keep \/ r.x < o \/ r.x > o + w - r.width

FullyInside(r, o, w) == r.x >= o /\ r.x + r.width <= o + w

\* C6: when the sync reaction is evaluated with the sync complete, scrolling
\* enabled and the layouts published, scrollTo is called if and only if
\* keepActiveTabCentered, or x < o, or x > o + w - width; a tab fully inside
\* [o, o + w] causes no scroll unless centering is forced.
C6_ScrollIffHidden ==
  [][(SyncTrigger /\ SyncReady')
       => /\ scrollCall'.scrolled
               <=> ScrollClaimed(keepActiveTabCentered', ActiveRect',
                                 tabsOffset', width')
          /\ (FullyInside(ActiveRect', tabsOffset', width')
                /\ ~keepActiveTabCentered') => ~scrollCall'.scrolled]_vars

\* a scroll was issued for a tab cut off at the right edge of the window
C6_Witness ==
  /\ SyncReady
  /\ ~keepActiveTabCentered
  /\ scrollCall.scrolled
  /\ tabsOffset > 0
  /\ ActiveRect.x + ActiveRect.width > tabsOffset + width
  /\ ActiveRect.x <= tabsOffset + width

\* measured mode, index i addresses a tab, the published layouts are the
\* measured ones of the current tabs and no tab is wider than the container
SyncPre(i) ==
  /\ scrollEnabled
  /\ index = i
  /\ i < nTabs
  /\ AllReported
  /\ itemsLayout = GatheredLayout(itemLayoutGathering, tabNames)
  /\ \A k \in 1 .. nTabs : itemsLayout[k].width <= width

\* the sync is complete and tab i is fully inside the visible window
SyncedInView(i) ==
  /\ currentIndexToSync = targetIndexToSync
  /\ i < Len(itemsLayout)
  /\ FullyInside(itemsLayout[i + 1], tabsOffset, width)

\* a scrollTo the last step issued puts the middle of the active rectangle
\* at the middle of the container: x = x_i + width_i / 2 - width / 2
ScrollTargetCentred ==
  (scrollCall.scrolled /\ index < Len(itemsLayout))
    => scrollCall.x2 = 2 * ActiveRect.x + ActiveRect.width - width

\* the index has changed to i: the animation the index reaction started
\* towards i is in flight
SyncStarted(i) == SyncPre(i) /\ syncAnim # None

\* C7: in measured mode with the layouts published and no tab wider than the
\* container, after the index has changed to i, and unless it changes again
\* (there is no user scrolling in this specification), the sync animation
\* completes and the strip reaches an offset at which tab i is fully inside
\* the visible window; every scrollTo issued has
\* x = x_i + width_i / 2 - containerWidth / 2.
C7_ActiveTabBroughtIntoView ==
  /\ []ScrollTargetCentred
  /\ \A i \in 0 .. MaxTabs - 1 :
       SyncStarted(i) ~> (SyncedInView(i) \/ ~SyncPre(i))

\* all animations have ended and the active tab, which offset 0 would cut
\* off, is inside the window the auto-scroll moved to
C7_Witness ==
  /\ SyncPre(index)
  /\ syncAnim = None
  /\ scrollAnim = None
  /\ tabsOffset > 0
  /\ SyncedInView(index)
  /\ ~FullyInside(ActiveRect, 0, width)

(* ==================== properties: presses and colours ================== *)
\* a step of one of the bar's own handlers: a press, a drag or scroll event,
\* a layout event
HandlerStep ==
  \/ TabItemPress
  \/ PressNext
  \/ OnBeginDrag
  \/ UserScroll
  \/ OnMomentumEnd
  \/ RowLayoutEvent

\* pressing the tab item at position i calls onTabPress once, with the name
\* of the tab at position i
PressCallsOwnName ==
  \A i \in 0 .. MaxTabs - 1 :
    PressTabItem(i) => (nCalls' = nCalls + 1 /\ lastCall' = tabNames[i + 1])

\* C8: pressing a tab item calls the select-tab callback exactly once with
\* that item's own tab name; a step that changes index or indexDecimal is a
\* step of the external driver and not one of a press, scroll or layout
\* handler of the bar.
C8_PressCallsBackOnly ==
  [][/\ PressCallsOwnName
     /\ \/ UNCHANGED indexVars
        \/ (IndexChange \/ IndexDecimalChange) /\ ~HandlerStep]_vars

\* tab items other than the first have been pressed, the row has reported
\* its layouts and the strip has been dragged away from 0, and index and
\* indexDecimal are as mounted
C8_Witness ==
  /\ ItemsRendered
  /\ nCalls >= 2
  /\ lastCall = tabNames[nTabs]
  /\ nTabs >= 2
  /\ AllReported
  /\ tabsOffset > 0
  /\ index = 0
  /\ indexDecimal = 0

\* the position one before sel, the first wrapping to the last
Before(sel, n) == IF sel = 0 THEN n - 1 ELSE sel - 1

\* after k presses from the mount the selection is k positions before the
\* first tab, wrapping, and the callback last received that tab's name
BackwardOrder ==
  NextRendered =>
    /\ indexData.selected = (nTabs - (nCalls % nTabs)) % nTabs
    /\ nCalls > 0 => lastCall = tabNames[indexData.selected + 1]

\* C9 as stated: in carousel mode the k-th press of the next affordance
\* selects position k mod n, so n presses visit 1, 2, ..., n-1, 0.
C9_NextVisitsForward ==
  NextRendered =>
    /\ indexData.selected = nCalls % nTabs
    /\ nCalls > 0 => lastCall = tabNames[indexData.selected + 1]

\* C9, amended: in carousel mode with the tab list unchanged, starting from
\* the first tab selected, each press of the next affordance selects the tab
\* one position before the selected one and calls the select-tab callback
\* with its name, and a press while the first tab is selected selects the
\* last; so n presses visit n-1, n-2, ..., 1, 0.
C9_NextVisitsBackward ==
  /\ []BackwardOrder
  /\ [][PressNext =>
          /\ indexData'.selected = Before(indexData.selected, nTabs)
          /\ lastCall' = tabNames[indexData'.selected + 1]
          /\ nCalls' = nCalls + 1]_vars

\* more than n presses: the selection has gone down to the first tab and
\* wrapped to the last again
C9_Witness ==
  /\ NextRendered
  /\ nCalls > nTabs
  /\ indexData.selected = nTabs - 1
  /\ lastCall = tabNames[nTabs]

\* indexDecimal is exactly half way between two positions
HalfWay == (2 * indexDecimal) % (2 * DecScale) = DecScale

\* C10: the tab item at position p is active-coloured iff
\* |p - indexDecimal| < 0.5, that is p - 0.5 < indexDecimal < p + 0.5; so for
\* indexDecimal in [0, nTabs - 1] at most one item is active-coloured, it is
\* strictly nearer to indexDecimal than every other position, and at an
\* exact half-integer no item is.
C10_ActiveColorNearest ==
  /\ \A p \in 0 .. nTabs - 1 :
       IsActiveColor(p, indexDecimal) <=>
         /\ (2 * p - 1) * DecScale < 2 * indexDecimal
         /\ 2 * indexDecimal < (2 * p + 1) * DecScale
  /\ Cardinality(ActiveColored) <= 1
  /\ \A p \in ActiveColored : \A q \in (0 .. nTabs - 1) \ {p} :
       Abs(p * DecScale - indexDecimal) < Abs(q * DecScale - indexDecimal)
  /\ ~HalfWay => Cardinality(ActiveColored) = 1
  /\ HalfWay => ActiveColored = {}

\* the fractional index is half way between two rendered tab items and
\* neither shows the active colour
C10_Witness ==
  /\ ItemsRendered
  /\ nTabs >= 2
  /\ HalfWay
  /\ ActiveColored = {}

(* ========================= properties: carousel ======================== *)
\* the horizontal translation of the card at position i, in units of
\* 1/DecScale: 0 when no transform is applied
CardX(i) == CardTransform(i, indexDecimal, itemsLayout).x

\* the card positions the claim gives at this indexDecimal
CardOffsetsAsClaimed ==
  \A i \in 0 .. nTabs - 1 :
    /\ indexDecimal = 0 => CardX(i) = (0 - 285 * i) * DecScale
    /\ indexDecimal = DecScale => CardX(i) = ((0 - 285 * i) + 285) * DecScale
    /\ CardX(i) = (0 - 285 * i) * DecScale + 285 * indexDecimal

\* C11 as stated: in carousel mode, for every card position and every tab
\* count, the card is at -(285 * index) at indexDecimal = 0 and at
\* -(285 * index) + 285 at indexDecimal = 1, a slide of 285 per unit step.
C11_CardOffsets == CardsRendered => CardOffsetsAsClaimed

\* C11, amended: in carousel mode, whenever itemsLayout has more than one
\* entry (the transform is applied), for every card position and every tab
\* count the card is at -(285 * index) at indexDecimal = 0 and at
\* -(285 * index) + 285 at indexDecimal = 1, a slide of 285 per unit step.
C11_CardOffsetsWhenLaidOut ==
  (CardsRendered /\ Len(itemsLayout) > 1) =>
    /\ CardOffsetsAsClaimed
    /\ \A i \in 0 .. nTabs - 1 :
         CardTransform(i, indexDecimal, itemsLayout).applied

\* the third card, between its positions for indexDecimal 1 and 2
C11_Witness ==
  /\ CardsRendered
  /\ Len(itemsLayout) > 1
  /\ indexDecimal > DecScale
  /\ indexDecimal < 2 * DecScale
  /\ CardX(2) < 0
  /\ CardX(2) > (0 - 285) * DecScale

(* ====================== properties: layout callbacks =================== *)
\* a layout callback without measurement data, or one received while
\* scrollEnabled is false
IgnoredLayoutEvent ==
  \/ EmptyLayoutEvent
  \/ ~scrollEnabled /\ ItemLayoutEvent

\* C12: a layout callback that carries no measurement data leaves the
\* accumulator map and the published itemsLayout unchanged, and so does any
\* layout callback received while scrollEnabled is false.
C12_AbsentLayoutNoOp ==
  [][IgnoredLayoutEvent => UNCHANGED layoutVars]_vars

\* measured mode with some but not all tabs reported: a callback without
\* data leaves the partial accumulator and the empty itemsLayout as they are
C12_Witness ==
  /\ scrollEnabled
  /\ ItemsRendered
  /\ itemLayoutGathering # << >>
  /\ ~AllReported
  /\ itemsLayout = << >>

(* ======================== properties: auto-scroll ====================== *)
\* C13: an auto-scroll of the strip is issued only at a moment where
\* scrollEnabled is true, the published layout sequence has one entry per
\* tab, the sync animation is complete (currentIndexToSync equals
\* targetIndexToSync) and the external index addresses an existing
\* rectangle; never while one of these fails.
C13_ScrollOnlyWhenReady ==
  scrollCall.scrolled =>
    /\ scrollEnabled
    /\ Len(itemsLayout) = nTabs
    /\ currentIndexToSync = targetIndexToSync
    /\ index \in 0 .. Len(itemsLayout) - 1

\* the sync animation towards a tab other than the first has just
\* completed and its last frame issued the auto-scroll
C13_Witness ==
  /\ scrollCall.scrolled
  /\ index > 0
  /\ syncAnim = None
  /\ scrollAnim # None
  /\ currentIndexToSync = index * SyncScale

(* ===================== properties: changing tab sets =================== *)
\* names whose accumulator entry the step changed
ChangedEntries ==
  {name \in MapKeys(itemLayoutGathering) :
     MapGet(itemLayoutGathering', name) # MapGet(itemLayoutGathering, name)}

\* the step removes no key, and changes an entry only by a report of a tab
\* item rendered under that name
AccumulatorKept ==
  /\ MapKeys(itemLayoutGathering) \subseteq MapKeys(itemLayoutGathering')
  /\ \A name \in ChangedEntries :
       /\ tabNames' = tabNames
       /\ Includes(tabNames, name)
       /\ itemLayoutGathering' =
            MapSet(itemLayoutGathering, name,
                   MapGet(itemLayoutGathering', name))

\* how often layout l occurs in sequence s
Count(s, l) == Cardinality({k \in 1 .. Len(s) : s[k] = l})

\* the layouts last reported under the current names, in tab order
CurrentLayouts ==
  [i \in 1 .. nTabs |-> MapGet(itemLayoutGathering, tabNames[i])]

\* every current name has reported and itemsLayout holds exactly the
\* layouts of the current names
PublishedCurrent ==
  /\ AllReported
  /\ Len(itemsLayout) = nTabs
  /\ \A k \in 1 .. nTabs :
       Count(itemsLayout, itemsLayout[k]) = Count(CurrentLayouts, itemsLayout[k])

\* C14: in measured mode, across changes of tabNames (to disjoint sets
\* among others), the accumulator's key set never shrinks and an entry
\* changes only when the same name reports again; every sequence published
\* contains only the layouts of the names in the current tab-name sequence,
\* and is published only once every current name has reported.
C14_StaleKeptButFiltered ==
  [][AccumulatorKept /\ (PublishStep => PublishedCurrent')]_vars

\* the accumulator still holds a removed name next to the current ones,
\* which have all reported and are published without it
C14_Witness ==
  /\ scrollEnabled
  /\ MapKeys(itemLayoutGathering) \ Range(tabNames) # {}
  /\ AllReported
  /\ Len(itemsLayout) = nTabs
  /\ itemsLayout = GatheredLayout(itemLayoutGathering, tabNames)
  /\ \E e \in Range(itemLayoutGathering) :
       ~Includes(tabNames, e.name) /\ Count(itemsLayout, e.layout) = 0

(* ================== properties: carousel and tab changes =============== *)
\* C15: in carousel mode, whatever presses of the next affordance and
\* changes of the tab-name sequence (keeping more than two tabs) came
\* before, a press calls the select-tab callback exactly once with a name
\* of the current tabNames (never undefined), and afterwards
\* indexData.selected lies in 0 .. nTabs - 1 and is the position of that
\* name.
C15_PressSelectsCurrentName ==
  [][PressNext =>
       /\ nCalls' = nCalls + 1
       /\ Includes(tabNames, lastCall')
       /\ indexData'.selected \in 0 .. nTabs - 1
       /\ tabNames[indexData'.selected + 1] = lastCall']_vars

====
